---- MODULE Spec2Model ----
(***************************************************************************)
(* Render orchestration of bevy_gaussian_splatting (src/render/mod.rs):    *)
(* extraction, asset preparation, the three queue systems, the pipeline    *)
(* variant cache, and the DrawGaussians render command, as one frame loop. *)
(* Host-side sort sizing (ShaderDefines) is modelled as pure operators on   *)
(* fixed-width integers (SpecSizing); the digit passes of the radix sort   *)
(* follow the sort engine's contract (SpecSort).                           *)
(***************************************************************************)
EXTENDS Integers, Sequences, FiniteSets, TLC

\* ---------------------------------------------------------------- bounds
NumEntities == 1
NumHandles == 1
NumViews == 1
MaxCount == 2

Entities == 1..NumEntities
Views == 1..NumViews
Handles == 1..NumHandles
\* A cloud of one splat and a cloud of MaxCount splats.
Counts == {1, MaxCount}

\* ---------------------------------------------------------------- options
None == <<>>
Some(x) == <<x>>
IsSome(o) == o # <<>>
Unwrap(o) == o[1]

\* ---------------------------------------------------------------- ShaderDefines
\* impl Default for ShaderDefines (mod.rs 385-414)
radix_bits_per_digit == 8
key_bits == 32
radix_digit_places == key_bits \div radix_bits_per_digit
radix_base == 2 ^ radix_bits_per_digit
entries_per_invocation_a == 4
entries_per_invocation_c == 4
workgroup_invocations_a == radix_base * radix_digit_places
workgroup_invocations_c == radix_base
workgroup_entries_a == workgroup_invocations_a * entries_per_invocation_a
workgroup_entries_c == workgroup_invocations_c * entries_per_invocation_c
temporal_sort_window_size == 16
\* MAX_SH_COEFF_COUNT is imported from crate::gaussian; its value is not in
\* this file and no property below reads it.
size_of_u32 == 4
size_of_draw_indirect == 16

ShaderDefinesDefault ==
    [ radix_bits_per_digit |-> radix_bits_per_digit,
      radix_digit_places |-> radix_digit_places,
      radix_base |-> radix_base,
      entries_per_invocation_a |-> entries_per_invocation_a,
      entries_per_invocation_c |-> entries_per_invocation_c,
      workgroup_invocations_a |-> workgroup_invocations_a,
      workgroup_invocations_c |-> workgroup_invocations_c,
      workgroup_entries_a |-> workgroup_entries_a,
      workgroup_entries_c |-> workgroup_entries_c,
      sorting_buffer_size |->
          radix_base * radix_digit_places * size_of_u32 + 5 * size_of_u32,
      temporal_sort_window_size |-> temporal_sort_window_size ]

\* ---------------------------------------------------------------- fixed-width integers
\* A u32 is two and a usize four 16-bit limbs, least significant first, so
\* that values around 2^32 are computed exactly.
Limb == 2 ^ 16

\* A small literal as a u32 / as a usize.
u32_from(n) == <<n % Limb, n \div Limb>>
usize_from(n) == <<n % Limb, n \div Limb, 0, 0>>

\* `x as u32` keeps the low 32 bits; `x as usize` widens.
as_u32(x) == SubSeq(x, 1, 2)
as_usize(x) == <<x[1], x[2], 0, 0>>

\* a + b, a - b, a * k and a / k on limbs; add, sub and mul end with the carry
\* (borrow) out of the top limb.
RECURSIVE add_limbs(_, _, _)
add_limbs(a, b, carry) ==
    IF a = <<>> THEN <<carry>>
    ELSE LET s == Head(a) + Head(b) + carry
         IN  <<s % Limb>> \o add_limbs(Tail(a), Tail(b), s \div Limb)

RECURSIVE sub_limbs(_, _, _)
sub_limbs(a, b, borrow) ==
    IF a = <<>> THEN <<borrow>>
    ELSE LET d == Head(a) - Head(b) - borrow
         IN  <<(d + Limb) % Limb>>
                 \o sub_limbs(Tail(a), Tail(b), IF d < 0 THEN 1 ELSE 0)

RECURSIVE mul_limbs(_, _, _)
mul_limbs(a, k, carry) ==
    IF a = <<>> THEN <<carry>>
    ELSE LET p == Head(a) * k + carry
         IN  <<p % Limb>> \o mul_limbs(Tail(a), k, p \div Limb)

RECURSIVE div_limbs(_, _, _)
div_limbs(a, k, rem) ==
    IF a = <<>> THEN <<>>
    ELSE LET n == Len(a)
             cur == rem * Limb + a[n]
         IN  div_limbs(SubSeq(a, 1, n - 1), k, cur % k) \o <<cur \div k>>

Wrapped(r) == SubSeq(r, 1, Len(r) - 1)
Carried(r) == r[Len(r)] # 0

\* (count as u32 + self.workgroup_entries_c - 1), mod.rs 376: the cast, then
\* the addition, then the subtraction, each on 32 bits.
tile_sum(count) == add_limbs(as_u32(count), u32_from(workgroup_entries_c), 0)
tile_dividend(count) == sub_limbs(Wrapped(tile_sum(count)), u32_from(1), 0)
intermediate_overflows(count) ==
    Carried(tile_sum(count)) \/ Carried(tile_dividend(count))

\* ShaderDefines::max_tile_count (mod.rs 375-378). With overflow checks (a
\* debug build) an overflowing + or - panics, without them it wraps.  None is
\* the panic.
max_tile_count(count, overflow_checks) ==
    IF overflow_checks /\ intermediate_overflows(count) THEN None
    ELSE Some(div_limbs(Wrapped(tile_dividend(count)), workgroup_entries_c, 0))

\* ShaderDefines::sorting_status_counters_buffer_size (mod.rs 380-382), a
\* product of usizes; its largest value, 2^32, fits the 64 bits of a usize.
sorting_status_counters_buffer_size(count, overflow_checks) ==
    LET tiles == max_tile_count(count, overflow_checks)
    IN  IF ~IsSome(tiles) THEN None
        ELSE Some(Wrapped(mul_limbs(
                 Wrapped(mul_limbs(as_usize(Unwrap(tiles)), radix_base, 0)),
                 size_of_u32, 0)))

\* shader_defs handing WORKGROUP_ENTRIES_C the entry count of the other kernel.
shader_defs_entries_a(aabb, visualize_bounding_box) ==
    LET defines == ShaderDefinesDefault IN
    [ RADIX_BASE |-> defines.radix_base,
      RADIX_BITS_PER_DIGIT |-> defines.radix_bits_per_digit,
      RADIX_DIGIT_PLACES |-> defines.radix_digit_places,
      ENTRIES_PER_INVOCATION_A |-> defines.entries_per_invocation_a,
      ENTRIES_PER_INVOCATION_C |-> defines.entries_per_invocation_c,
      WORKGROUP_INVOCATIONS_A |-> defines.workgroup_invocations_a,
      WORKGROUP_INVOCATIONS_C |-> defines.workgroup_invocations_c,
      WORKGROUP_ENTRIES_C |-> defines.workgroup_entries_a,
      TEMPORAL_SORT_WINDOW_SIZE |-> defines.temporal_sort_window_size,
      flags |-> (IF aabb THEN {"USE_AABB"} ELSE {"USE_OBB"})
                \cup (IF visualize_bounding_box
                      THEN {"VISUALIZE_BOUNDING_BOX"} ELSE {}) ]

\* fn shader_defs(aabb, visualize_bounding_box) (mod.rs 416-448): the UInt
\* definitions as a record, the flag definitions as a set of names.
shader_defs(aabb, visualize_bounding_box) ==
    LET defines == ShaderDefinesDefault IN
    [ RADIX_BASE |-> defines.radix_base,
      RADIX_BITS_PER_DIGIT |-> defines.radix_bits_per_digit,
      RADIX_DIGIT_PLACES |-> defines.radix_digit_places,
      ENTRIES_PER_INVOCATION_A |-> defines.entries_per_invocation_a,
      ENTRIES_PER_INVOCATION_C |-> defines.entries_per_invocation_c,
      WORKGROUP_INVOCATIONS_A |-> defines.workgroup_invocations_a,
      WORKGROUP_INVOCATIONS_C |-> defines.workgroup_invocations_c,
      WORKGROUP_ENTRIES_C |-> defines.workgroup_entries_c,
      TEMPORAL_SORT_WINDOW_SIZE |-> defines.temporal_sort_window_size,
      flags |-> (IF aabb THEN {"USE_AABB"} ELSE {})
                \cup (IF ~aabb THEN {"USE_OBB"} ELSE {})
                \cup (IF visualize_bounding_box
                      THEN {"VISUALIZE_BOUNDING_BOX"} ELSE {}) ]

\* ---------------------------------------------------------------- pipeline keys
\* struct GaussianCloudSettings as far as this file reads it (232-233)
Settings == [aabb : BOOLEAN, visualize_bounding_box : BOOLEAN]

\* A key that leaves the debug flag out.
KeyIgnoringDebug(settings) ==
    [ aabb |-> settings.aabb, visualize_bounding_box |-> FALSE ]

\* GaussianCloudPipelineKey built in queue_gaussians (mod.rs 231-234)
GaussianCloudPipelineKey(settings) ==
    [ aabb |-> settings.aabb,
      visualize_bounding_box |-> settings.visualize_bounding_box ]

\* SpecializedRenderPipeline::specialize (mod.rs 459-532): the descriptor of a
\* variant, as far as it depends on the key or orders the bind group layouts.
specialize_descriptor(key) ==
    [ layout |-> <<"view_layout", "gaussian_uniform_layout",
                   "gaussian_cloud_layout", "sorted_layout">>,
      shader_defs |-> shader_defs(key.aabb, key.visualize_bounding_box) ]

\* ---------------------------------------------------------------- assets
\* GpuRadixBuffers::new(count, device), called at mod.rs 197; sort.rs is not
\* part of the available source: two entry buffers of `count` entries.
GpuRadixBuffersNew(count) ==
    [ entry_buffer_a |-> [entries |-> count],
      entry_buffer_b |-> [entries |-> count] ]

\* prepare_asset creating the draw-indirect buffer with the splat count in it.
prepare_asset_populated(n) ==
    [ gaussian_buffer |-> [gaussians |-> n],
      count |-> n,
      draw_indirect_buffer |-> [size |-> size_of_draw_indirect,
                                instance_count |-> n],
      radix_sort_buffers |-> GpuRadixBuffersNew(n) ]

\* RenderAsset::prepare_asset (mod.rs 174-199) for a cloud of n gaussians.
\* draw_indirect_buffer is created by create_buffer (no contents): the device
\* zero-initialises it, so its instance count reads 0.
prepare_asset(n) ==
    [ gaussian_buffer |-> [gaussians |-> n],
      count |-> n,
      draw_indirect_buffer |-> [size |-> size_of_draw_indirect,
                                instance_count |-> 0],
      radix_sort_buffers |-> GpuRadixBuffersNew(n) ]

\* ---------------------------------------------------------------- state
VARIABLES
    pc,               \* the stage the frame loop is about to run
    loadState,        \* asset_server.get_load_state(handle), per handle
    pending,          \* clouds extracted for RenderAssets, not yet prepared
    removed,          \* clouds extracted as removed, still in RenderAssets
    gaussian_clouds,  \* RenderAssets<GaussianCloud>: handle -> Option<GpuGaussianCloud>
    current_buffer,   \* per cloud, the entry buffer holding the latest sort output
    hidden,           \* entities whose main world Visibility was Hidden at extraction
    bundles,          \* render world: entity -> Option<GpuGaussianSplattingBundle>
    uniform_buffer,   \* ComponentUniforms<GaussianCloudUniform>::buffer().is_some()
    uniform_index,    \* entity -> Option<DynamicUniformIndex>
    view_uniforms,    \* view_uniforms binding and globals binding both exist
    base_bind_group,  \* GaussianUniformBindGroups.base_bind_group
    cloud_bind_group, \* entity -> Option<GaussianCloudBindGroup>
    view_bind_group,  \* view -> Option<GaussianViewBindGroup>
    queued,           \* queue systems that already ran this frame
    phase,            \* view -> RenderPhase<Transparent3d> items
    pipelines,        \* SpecializedRenderPipelines cache: key -> pipeline id
    variants,         \* compiled variant descriptors, by pipeline id
    first_pipeline,   \* history: settings -> pipeline id answered at the first request
    sort_todo,        \* clouds the sort node still has to handle this frame
    sort_pass,        \* digit passes already run on the head of sort_todo
    sorted_now,       \* clouds that got a full sort in this frame
    cursor,           \* <<view, item index>> the render stage is at
    drawn,            \* this frame's executed draw functions, in order
    panic,            \* why the process aborted, or "none"
    sizing,           \* a host-side sizing computation (status counter buffer)
    radix             \* a radix sort of one entry buffer pair

vars == <<pc, loadState, pending, removed, gaussian_clouds, current_buffer, hidden,
          bundles, uniform_buffer, uniform_index, view_uniforms,
          base_bind_group, cloud_bind_group, view_bind_group, queued, phase,
          pipelines, variants, first_pipeline, sort_todo, sort_pass,
          sorted_now, cursor, drawn, panic, sizing, radix>>

asset_vars == <<loadState, pending, removed, gaussian_clouds>>
entity_vars == <<hidden, bundles, uniform_index, cloud_bind_group>>
view_vars == <<view_uniforms, view_bind_group>>
pipeline_vars == <<pipelines, variants, first_pipeline>>
sort_vars == <<current_buffer, sort_todo, sort_pass, sorted_now>>
render_vars == <<cursor, drawn, panic>>
calc_vars == <<sizing, radix>>
frame_vars == <<pc, asset_vars, entity_vars, view_vars, pipeline_vars,
                sort_vars, render_vars, uniform_buffer, base_bind_group,
                queued, phase>>

Visibility == {"Inherited", "Hidden", "Visible"}
LoadStates == {"NotLoaded", "Loading", "Loaded"}
QueueSystems == {"prepare_assets", "queue_gaussian_bind_group",
                 "queue_gaussian_view_bind_groups", "queue_gaussians"}
EmptyFn == [x \in {} |-> 0]

\* The render world right after RenderSet::Cleanup (World::clear_entities).
ClearedRenderWorld ==
    /\ bundles = [e \in Entities |-> None]
    /\ uniform_index = [e \in Entities |-> None]
    /\ cloud_bind_group = [e \in Entities |-> None]
    /\ view_bind_group = [v \in Views |-> None]
    /\ phase = [v \in Views |-> <<>>]
    /\ queued = {}
    /\ sort_todo = <<>>
    /\ sort_pass = 0
    /\ sorted_now = {}
    /\ cursor = <<1, 1>>
    /\ drawn = <<>>

\* RenderPipelinePlugin::build / finish (mod.rs 86-146): resources are
\* default-initialised, no cloud is known yet.
InitRender(states, queue) ==
    /\ pc = "main"
    /\ loadState \in [Handles -> states]
    /\ pending \in [Handles -> queue]
    /\ removed = {}
    /\ gaussian_clouds = [h \in Handles |-> None]
    /\ current_buffer = [h \in Handles |-> "A"]
    /\ hidden = {}
    /\ uniform_buffer = FALSE
    /\ view_uniforms = FALSE
    /\ base_bind_group = None
    /\ pipelines = EmptyFn
    /\ variants = <<>>
    /\ first_pipeline = EmptyFn
    /\ panic = "none"
    /\ ClearedRenderWorld

InitWith(states, queue) ==
    /\ InitRender(states, queue)
    /\ sizing = [stage |-> "idle"]
    /\ radix = [stage |-> "idle"]

Init == InitWith({"NotLoaded"}, {None})

\* ---------------------------------------------------------------- asset collaborator
\* The asset server starts loading a cloud.
StartLoad(h) ==
    /\ pc = "main"
    /\ loadState[h] = "NotLoaded"
    /\ loadState' = [loadState EXCEPT ![h] = "Loading"]
    /\ UNCHANGED <<calc_vars, pc, pending, removed, gaussian_clouds, entity_vars, view_vars,
                   uniform_buffer, base_bind_group, queued, phase,
                   pipeline_vars, sort_vars, render_vars>>

\* A load completes with a cloud of n gaussians; the asset is extracted for
\* RenderAssets in the coming frame.
FinishLoad(h, n) ==
    /\ pc = "main"
    /\ loadState[h] = "Loading"
    /\ loadState' = [loadState EXCEPT ![h] = "Loaded"]
    /\ pending' = [pending EXCEPT ![h] = Some(n)]
    /\ UNCHANGED <<calc_vars, pc, removed, gaussian_clouds, entity_vars, view_vars,
                   uniform_buffer, base_bind_group, queued, phase,
                   pipeline_vars, sort_vars, render_vars>>

\* A loaded cloud is loaded again (hot reload): the handle is Loading while
\* the cloud prepared from the earlier load stays in RenderAssets.
Reload(h) ==
    /\ pc = "main"
    /\ loadState[h] = "Loaded"
    /\ loadState' = [loadState EXCEPT ![h] = "Loading"]
    /\ UNCHANGED <<calc_vars, pc, pending, removed, gaussian_clouds, entity_vars, view_vars,
                   uniform_buffer, base_bind_group, queued, phase,
                   pipeline_vars, sort_vars, render_vars>>

\* A loaded, prepared cloud is removed from the assets; the removal is
\* extracted for RenderAssets in the coming frame.
Remove(h) ==
    /\ pc = "main"
    /\ loadState[h] = "Loaded"
    /\ IsSome(gaussian_clouds[h])
    /\ ~IsSome(pending[h])
    /\ h \notin removed
    /\ loadState' = [loadState EXCEPT ![h] = "NotLoaded"]
    /\ removed' = removed \cup {h}
    /\ UNCHANGED <<calc_vars, pc, pending, gaussian_clouds, entity_vars, view_vars,
                   uniform_buffer, base_bind_group, queued, phase,
                   pipeline_vars, sort_vars, render_vars>>

\* ---------------------------------------------------------------- extraction
\* extract_gaussians (mod.rs 549-590). vis, handle, settings are the main
\* world components of each entity in this frame; the handles and settings in
\* use come from HandleSet and SettingsSet.
ExtractedBundle(vis, handle, settings) ==
    IF vis = "Hidden"
    THEN None
    ELSE Some([settings |-> settings, verticies |-> handle])

extract_gaussians(HandleSet, SettingsSet) ==
    /\ pc = "main"
    /\ \E vis \in [Entities -> Visibility],
          handle \in [Entities -> HandleSet],
          settings \in [Entities -> SettingsSet] :
          /\ hidden' = {e \in Entities : vis[e] = "Hidden"}
          /\ bundles' = [e \in Entities |->
                            ExtractedBundle(vis[e], handle[e], settings[e])]
    /\ pc' = "queue"
    /\ UNCHANGED <<calc_vars, asset_vars, uniform_index, cloud_bind_group, view_vars,
                   uniform_buffer, base_bind_group, queued, phase,
                   pipeline_vars, sort_vars, render_vars>>

\* ---------------------------------------------------------------- queue stage
\* The three queue systems are all in RenderSet::QueueMeshes with no order
\* between them (mod.rs 128-135), and nothing orders them against
\* prepare_assets::<GaussianCloud> of the RenderAssetPlugin (mod.rs 116), which
\* only has to run after extraction and before the prepare stage: each of the
\* four runs once per frame, in any order.
SystemDone(system) ==
    /\ pc = "queue"
    /\ system \notin queued
    /\ queued' = queued \cup {system}
    /\ pc' = IF queued' = QueueSystems THEN "prepare" ELSE "queue"

\* The buffers a cloud record stands for are told apart from the ones of the
\* record it replaces by the allocation bit.
NextAllocation(old) == IF IsSome(old) THEN 1 - Unwrap(old).allocation ELSE 0

\* prepare_assets::<GaussianCloud> (RenderAssetPlugin, registered at mod.rs
\* 116) drops the records of the removed clouds, then calls prepare_asset for
\* every extracted cloud and stores the result in place of the record it had.
prepare_assets ==
    /\ SystemDone("prepare_assets")
    /\ gaussian_clouds' = [h \in Handles |->
            IF IsSome(pending[h])
            THEN Some(prepare_asset(Unwrap(pending[h]))
                          @@ [allocation |-> NextAllocation(gaussian_clouds[h])])
            ELSE IF h \in removed THEN None
            ELSE gaussian_clouds[h]]
    /\ current_buffer' = [h \in Handles |->
            IF IsSome(pending[h]) THEN "A" ELSE current_buffer[h]]
    /\ pending' = [h \in Handles |-> None]
    /\ removed' = {}
    /\ UNCHANGED <<calc_vars, loadState, entity_vars, view_vars, uniform_buffer,
                   base_bind_group, phase, pipeline_vars, sort_todo,
                   sort_pass, sorted_now, render_vars>>

\* The GaussianCloudBindGroup inserted at mod.rs 648-677 for a prepared cloud.
\* The sorted-order binding names entry_buffer_a (mod.rs 670).
SortedBindingBuffer == "entry_buffer_a"

size_of_entry == 8

GaussianCloudBindGroup(handle, cloud) ==
    [ cloud_bind_group |-> [handle |-> handle, buffer |-> "gaussian_buffer",
                            allocation |-> cloud.allocation],
      sorted_bind_group |-> [handle |-> handle,
                             buffer |-> SortedBindingBuffer,
                             allocation |-> cloud.allocation,
                             size |-> cloud.count * size_of_entry] ]

\* The loop body without the load state test.
BindGroupForIgnoringLoadState(bundle, old) ==
    IF ~IsSome(bundle) THEN old
    ELSE LET handle == Unwrap(bundle).verticies IN
         IF ~IsSome(gaussian_clouds[handle]) THEN old
         ELSE Some(GaussianCloudBindGroup(handle, Unwrap(gaussian_clouds[handle])))

\* The per-entity loop body of queue_gaussian_bind_group (mod.rs 636-678).
BindGroupFor(bundle, old) ==
    IF ~IsSome(bundle) THEN old
    ELSE LET handle == Unwrap(bundle).verticies IN
         IF loadState[handle] = "Loading" THEN old
         ELSE IF ~IsSome(gaussian_clouds[handle]) THEN old
         ELSE Some(GaussianCloudBindGroup(handle, Unwrap(gaussian_clouds[handle])))

\* queue_gaussian_bind_group (mod.rs 604-679)
queue_gaussian_bind_group ==
    /\ SystemDone("queue_gaussian_bind_group")
    /\ IF ~uniform_buffer
       THEN UNCHANGED <<base_bind_group, cloud_bind_group>>
       ELSE /\ base_bind_group' = Some("gaussian_uniform_bind_group")
            /\ cloud_bind_group' = [e \in Entities |->
                                      BindGroupFor(bundles[e], cloud_bind_group[e])]
    /\ UNCHANGED <<calc_vars, asset_vars, hidden, bundles, uniform_index, view_vars,
                   uniform_buffer, phase, pipeline_vars, sort_vars, render_vars>>

\* queue_gaussian_view_bind_groups (mod.rs 686-735)
queue_gaussian_view_bind_groups ==
    /\ SystemDone("queue_gaussian_view_bind_groups")
    /\ IF view_uniforms
       THEN view_bind_group' = [v \in Views |-> Some([view |-> v])]
       ELSE UNCHANGED view_bind_group
    /\ UNCHANGED <<calc_vars, asset_vars, entity_vars, view_uniforms, uniform_buffer,
                   base_bind_group, phase, pipeline_vars, sort_vars, render_vars>>

\* SpecializedRenderPipelines::specialize (called at mod.rs 236): the cached
\* pipeline of a key, compiling the variant on the first request only.
\* st = [pipelines, variants]; the answer adds the pipeline id.
specialize(st, key) ==
    IF key \in DOMAIN st.pipelines
    THEN [pipelines |-> st.pipelines, variants |-> st.variants,
          id |-> st.pipelines[key]]
    ELSE [pipelines |-> [k \in DOMAIN st.pipelines \cup {key} |->
                            IF k = key THEN Len(st.variants) + 1
                            ELSE st.pipelines[k]],
          variants |-> Append(st.variants, specialize_descriptor(key)),
          id |-> Len(st.variants) + 1]

\* Whether queue_gaussians queues entity e (mod.rs 229-230).
QueuesItem(e) ==
    /\ IsSome(bundles[e])
    /\ IsSome(gaussian_clouds[Unwrap(bundles[e]).verticies])

\* The loops of queue_gaussians (mod.rs 228-253) from pair k on; pair k is
\* (view, entity) in iteration order, views outermost.
\* acc = [pipelines, variants, first, phase].
RECURSIVE QueueLoop(_, _)
QueueLoop(k, acc) ==
    IF k > NumViews * NumEntities THEN acc
    ELSE LET v == ((k - 1) \div NumEntities) + 1
             e == ((k - 1) % NumEntities) + 1
         IN  IF ~QueuesItem(e) THEN QueueLoop(k + 1, acc)
             ELSE LET settings == Unwrap(bundles[e]).settings
                      key == GaussianCloudPipelineKey(settings)
                      got == specialize(acc, key)
                      item == [entity |-> e, pipeline |-> got.id]
                  IN  QueueLoop(k + 1,
                        [pipelines |-> got.pipelines,
                         variants |-> got.variants,
                         first |-> IF settings \in DOMAIN acc.first
                                   THEN acc.first
                                   ELSE [s \in DOMAIN acc.first \cup {settings} |->
                                           IF s = settings THEN got.id
                                           ELSE acc.first[s]],
                         phase |-> [acc.phase EXCEPT ![v] = Append(@, item)]])

\* queue_gaussians without the early return on a missing uniform buffer.
queue_gaussians_ungated ==
    /\ SystemDone("queue_gaussians")
    /\ LET out == QueueLoop(1, [pipelines |-> pipelines,
                                variants |-> variants,
                                first |-> first_pipeline,
                                phase |-> phase])
       IN  /\ phase' = out.phase
           /\ pipelines' = out.pipelines
           /\ variants' = out.variants
           /\ first_pipeline' = out.first
    /\ UNCHANGED <<calc_vars, asset_vars, entity_vars, view_vars, uniform_buffer,
                   base_bind_group, sort_vars, render_vars>>

\* queue_gaussians (mod.rs 204-254)
queue_gaussians ==
    /\ SystemDone("queue_gaussians")
    /\ IF ~uniform_buffer
       THEN UNCHANGED <<phase, pipeline_vars>>
       ELSE LET out == QueueLoop(1, [pipelines |-> pipelines,
                                     variants |-> variants,
                                     first |-> first_pipeline,
                                     phase |-> phase])
            IN  /\ phase' = out.phase
                /\ pipelines' = out.pipelines
                /\ variants' = out.variants
                /\ first_pipeline' = out.first
    /\ UNCHANGED <<calc_vars, asset_vars, entity_vars, view_vars, uniform_buffer,
                   base_bind_group, sort_vars, render_vars>>

\* ---------------------------------------------------------------- prepare stage
\* Position of entity e among the extracted entities: its slot in the
\* per-cloud uniform buffer.
UniformSlot(e) == Cardinality({d \in Entities : d < e /\ IsSome(bundles[d])})

\* prepare_uniform_components of UniformComponentPlugin<GaussianCloudUniform>
\* (registered at mod.rs 117) and the view/globals uniform preparation: they
\* run after the queue stage, so the queue systems of a frame see the buffers
\* written in the frames before. A buffer, once allocated, stays allocated.
prepare_resources ==
    /\ pc = "prepare"
    /\ uniform_buffer' = (uniform_buffer \/ \E e \in Entities : IsSome(bundles[e]))
    /\ uniform_index' = [e \in Entities |->
            IF IsSome(bundles[e]) THEN Some(UniformSlot(e)) ELSE None]
    /\ view_uniforms' = TRUE
    /\ pc' = "schedule_sort"
    /\ UNCHANGED <<calc_vars, asset_vars, hidden, bundles, cloud_bind_group,
                   view_bind_group, base_bind_group, queued, phase,
                   pipeline_vars, sort_vars, render_vars>>

\* ---------------------------------------------------------------- sort node
\* The clouds that have a bind group set this frame, in handle order.
RECURSIVE HandlesFrom(_, _)
HandlesFrom(h, S) ==
    IF h > NumHandles THEN <<>>
    ELSE IF h \in S THEN <<h>> \o HandlesFrom(h + 1, S)
    ELSE HandlesFrom(h + 1, S)

SortedClouds ==
    {Unwrap(cloud_bind_group[e]).sorted_bind_group.handle :
        e \in {d \in Entities : IsSome(cloud_bind_group[d])}}

\* The sort node takes up this frame's clouds.
schedule_sort ==
    /\ pc = "schedule_sort"
    /\ sort_todo' = HandlesFrom(1, SortedClouds)
    /\ sort_pass' = 0
    /\ pc' = IF sort_todo' = <<>> THEN "render" ELSE "sort"
    /\ UNCHANGED <<calc_vars, asset_vars, entity_vars, view_vars, uniform_buffer,
                   base_bind_group, queued, phase, pipeline_vars,
                   current_buffer, sorted_now, render_vars>>

OtherBuffer(b) == IF b = "A" THEN "B" ELSE "A"

PopSort ==
    /\ sort_todo' = Tail(sort_todo)
    /\ sort_pass' = 0
    /\ pc' = IF sort_todo' = <<>> THEN "render" ELSE "sort"

\* Temporal coherence window: the previous order of the cloud is reused.
temporal_reuse ==
    /\ pc = "sort"
    /\ sort_pass = 0
    /\ PopSort
    /\ UNCHANGED <<calc_vars, asset_vars, entity_vars, view_vars, uniform_buffer,
                   base_bind_group, queued, phase, pipeline_vars,
                   current_buffer, sorted_now, render_vars>>

\* One digit pass: source and destination alternate, the destination becomes
\* the current buffer.
radix_sort_pass ==
    /\ pc = "sort"
    /\ sort_pass < radix_digit_places
    /\ current_buffer' = [current_buffer EXCEPT
                             ![Head(sort_todo)] = OtherBuffer(@)]
    /\ sort_pass' = sort_pass + 1
    /\ UNCHANGED <<calc_vars, pc, asset_vars, entity_vars, view_vars, uniform_buffer,
                   base_bind_group, queued, phase, pipeline_vars, sort_todo,
                   sorted_now, render_vars>>

\* All digit places are done for the cloud.
radix_sort_done ==
    /\ pc = "sort"
    /\ sort_pass = radix_digit_places
    /\ sorted_now' = sorted_now \cup {Head(sort_todo)}
    /\ PopSort
    /\ UNCHANGED <<calc_vars, asset_vars, entity_vars, view_vars, uniform_buffer,
                   base_bind_group, queued, phase, pipeline_vars,
                   current_buffer, render_vars>>

\* ---------------------------------------------------------------- render commands
NoDyn == <<>>
PassOp(op, index, kind, owner, buffer, dyn) ==
    [op |-> op, index |-> index,
     bind |-> [kind |-> kind, owner |-> owner, buffer |-> buffer],
     dyn |-> dyn]
CommandResult(ops, result) == [ops |-> ops, result |-> result]

\* SetItemPipeline (bevy): sets the item's pipeline if the pipeline cache has
\* it compiled, fails otherwise.
SetItemPipeline(item, compiled) ==
    IF compiled
    THEN CommandResult(<<PassOp("set_render_pipeline", item.pipeline,
                                "pipeline", item.pipeline, "", NoDyn)>>,
                       "Success")
    ELSE CommandResult(<<>>, "Failure")

\* ViewUniformOffset of a view: its slot in the view uniform buffer.
ViewOffset(v) == v - 1

\* SetGaussianViewBindGroup<I>::render (mod.rs 747-764)
SetGaussianViewBindGroup(I, v) ==
    CommandResult(<<PassOp("set_bind_group", I, "view",
                           Unwrap(view_bind_group[v]).view, "view+globals",
                           <<ViewOffset(v)>>)>>,
                  "Success")

\* SetGaussianUniformBindGroup<I>::render (mod.rs 775-790)
SetGaussianUniformBindGroup(I, e) ==
    IF ~IsSome(base_bind_group)
    THEN CommandResult(<<>>, "Panic")
    ELSE CommandResult(<<PassOp("set_bind_group", I, "uniform", 0,
                                Unwrap(base_bind_group),
                                <<Unwrap(uniform_index[e])>>)>>,
                       "Success")

\* DrawGaussianInstanced::render (mod.rs 803-827)
DrawGaussianInstanced(e) ==
    LET handle == Unwrap(bundles[e]).verticies
        bind_groups == Unwrap(cloud_bind_group[e])
    IN  IF ~IsSome(gaussian_clouds[handle])
        THEN CommandResult(<<>>, "Failure")
        ELSE CommandResult(
               <<PassOp("set_bind_group", 2, "cloud",
                        bind_groups.cloud_bind_group.handle,
                        bind_groups.cloud_bind_group.buffer, NoDyn),
                 PassOp("set_bind_group", 3, "sorted",
                        bind_groups.sorted_bind_group.handle,
                        bind_groups.sorted_bind_group.buffer, NoDyn),
                 PassOp("draw_indirect", 0, "indirect", handle,
                        "draw_indirect_buffer", NoDyn)>>,
               "Success")

\* A tuple of render commands runs them in order and stops at the first that
\* does not succeed.
Then(first, second) ==
    IF first.result = "Success"
    THEN CommandResult(first.ops \o second.ops, second.result)
    ELSE first

\* The command tuple with the uniform bind group set before the view's.
DrawGaussiansSwapped(v, item, compiled) ==
    Then(SetItemPipeline(item, compiled),
    Then(SetGaussianUniformBindGroup(1, item.entity),
    Then(SetGaussianViewBindGroup(0, v),
         DrawGaussianInstanced(item.entity))))

\* type DrawGaussians (mod.rs 535-540)
DrawGaussians(v, item, compiled) ==
    Then(SetItemPipeline(item, compiled),
    Then(SetGaussianViewBindGroup(0, v),
    Then(SetGaussianUniformBindGroup(1, item.entity),
         DrawGaussianInstanced(item.entity))))

\* The view and item queries of the commands (mod.rs 740-744, 772, 797-800)
\* are not optional: the draw function fetches them before any command runs
\* and aborts when the view or the entity lacks a component.
QueriesMatch(v, e) ==
    /\ IsSome(view_bind_group[v])
    /\ IsSome(bundles[e])
    /\ IsSome(uniform_index[e])
    /\ IsSome(cloud_bind_group[e])

\* The draw function of one phase item; whether its pipeline is compiled by
\* now is up to the pipeline cache.
draw_item ==
    /\ pc = "render"
    /\ cursor[2] <= Len(phase[cursor[1]])
    /\ LET v == cursor[1]
           item == phase[v][cursor[2]]
       IN  IF ~QueriesMatch(v, item.entity)
           THEN /\ pc' = "panicked"
                /\ panic' = "query does not match"
                /\ UNCHANGED <<cursor, drawn>>
           ELSE \E compiled \in BOOLEAN :
                  LET out == DrawGaussians(v, item, compiled) IN
                  IF out.result = "Panic"
                  THEN /\ pc' = "panicked"
                       /\ panic' = "bind group not initialized"
                       /\ UNCHANGED <<cursor, drawn>>
                  ELSE /\ drawn' = Append(drawn,
                              [view |-> v, entity |-> item.entity,
                               ops |-> out.ops, result |-> out.result])
                       /\ cursor' = <<v, cursor[2] + 1>>
                       /\ UNCHANGED <<pc, panic>>
    /\ UNCHANGED <<calc_vars, asset_vars, entity_vars, view_vars, uniform_buffer,
                   base_bind_group, queued, phase, pipeline_vars, sort_vars>>

\* The phase of a view is done: on to the next view, or to the end of the
\* render stage.
end_view ==
    /\ pc = "render"
    /\ cursor[2] > Len(phase[cursor[1]])
    /\ IF cursor[1] < NumViews
       THEN /\ cursor' = <<cursor[1] + 1, 1>>
            /\ UNCHANGED pc
       ELSE /\ pc' = "cleanup"
            /\ UNCHANGED cursor
    /\ UNCHANGED <<calc_vars, asset_vars, entity_vars, view_vars, uniform_buffer,
                   base_bind_group, queued, phase, pipeline_vars, sort_vars,
                   drawn, panic>>

\* RenderSet::Cleanup: the render world's entities are cleared every frame.
cleanup ==
    /\ pc = "cleanup"
    /\ pc' = "main"
    /\ bundles' = [e \in Entities |-> None]
    /\ uniform_index' = [e \in Entities |-> None]
    /\ cloud_bind_group' = [e \in Entities |-> None]
    /\ view_bind_group' = [v \in Views |-> None]
    /\ phase' = [v \in Views |-> <<>>]
    /\ queued' = {}
    /\ sort_todo' = <<>>
    /\ sort_pass' = 0
    /\ sorted_now' = {}
    /\ cursor' = <<1, 1>>
    /\ drawn' = <<>>
    /\ UNCHANGED <<calc_vars, asset_vars, hidden, view_uniforms, uniform_buffer,
                   base_bind_group, pipeline_vars, current_buffer, panic>>

\* ---------------------------------------------------------------- specification
Frame(HandleSet, SettingsSet) ==
    \/ extract_gaussians(HandleSet, SettingsSet)
    \/ prepare_assets
    \/ queue_gaussian_bind_group
    \/ queue_gaussian_view_bind_groups
    \/ queue_gaussians
    \/ prepare_resources
    \/ schedule_sort
    \/ temporal_reuse
    \/ radix_sort_pass
    \/ radix_sort_done
    \/ draw_item
    \/ end_view
    \/ cleanup

\* The frame loop with the asset server loading, reloading and removing clouds; every
\* entity keeps the default bounding shape and no debug visualisation.
DefaultSettings == {[aabb |-> TRUE, visualize_bounding_box |-> FALSE]}

Next ==
    \/ \E h \in Handles : StartLoad(h)
    \/ \E h \in Handles, n \in Counts : FinishLoad(h, n)
    \/ \E h \in Handles : Reload(h)
    \/ \E h \in Handles : Remove(h)
    \/ Frame(Handles, DefaultSettings)

Spec == Init /\ [][Next]_vars

\* The frame loop over clouds that were added to the assets at startup, with
\* entities of every bounding shape and debug setting.
\* Every entity shows the first cloud.
InitPipeline == InitWith({"NotLoaded"}, {Some(MaxCount)})

NextPipeline == Frame({1}, Settings)

SpecPipeline == InitPipeline /\ [][NextPipeline]_vars

\* ---------------------------------------------------------------- sizing calls
SizingSpread == 2

TwoPow32 == <<0, 0, 1, 0>>
usize_add(a, b) == Wrapped(add_limbs(a, b, 0))
usize_sub(a, b) == Wrapped(sub_limbs(a, b, 0))

\* Splat counts around 0, one tile, ten million, and the end of the u32 range.
SizingCounts ==
    {usize_from(n) : n \in 0..SizingSpread}
    \cup {usize_from(workgroup_entries_c + d) : d \in -SizingSpread..SizingSpread}
    \cup {usize_from(10000000 + d) : d \in -SizingSpread..SizingSpread}
    \cup {usize_sub(TwoPow32, usize_from(workgroup_entries_c + d)) :
              d \in -SizingSpread..SizingSpread}
    \cup {usize_sub(TwoPow32, usize_from(n)) : n \in 1..SizingSpread}
    \cup {usize_add(TwoPow32, usize_from(n)) : n \in 0..SizingSpread}

\* A caller is about to size the buffers of a cloud of `count` splats, in a
\* build with or without overflow checks.
InitSizing ==
    /\ InitRender({"NotLoaded"}, {None})
    /\ radix = [stage |-> "idle"]
    /\ sizing \in [stage : {"call"}, count : SizingCounts,
                   overflow_checks : BOOLEAN]

call_max_tile_count ==
    /\ sizing.stage = "call"
    /\ sizing' = [stage |-> "max_tile_count",
                  count |-> sizing.count,
                  overflow_checks |-> sizing.overflow_checks,
                  result |-> max_tile_count(sizing.count, sizing.overflow_checks)]
    /\ UNCHANGED <<frame_vars, radix>>

call_sorting_status_counters_buffer_size ==
    /\ sizing.stage = "call"
    /\ sizing' = [stage |-> "sorting_status_counters_buffer_size",
                  count |-> sizing.count,
                  overflow_checks |-> sizing.overflow_checks,
                  result |-> sorting_status_counters_buffer_size(
                                 sizing.count, sizing.overflow_checks)]
    /\ UNCHANGED <<frame_vars, radix>>

NextSizing ==
    \/ call_max_tile_count
    \/ call_sorting_status_counters_buffer_size

SpecSizing == InitSizing /\ [][NextSizing]_vars

\* ---------------------------------------------------------------- radix sort
MaxSortLen == 3
MaxTiles == 3

\* A 32-bit key from its four digits, most significant first.
Key(d3, d2, d1, d0) == <<d1 * radix_base + d0, d3 * radix_base + d2>>

\* Keys that differ in every digit place, with the top bit clear and set,
\* in an order that is sorted in no digit place.
SortKeySeq ==
    LET m == radix_base - 1
    IN  << Key(m, 0, 0, 0), Key(0, 0, 0, m), Key(0, 1, 0, 0),
           Key(0, 0, 0, 0), Key(1, 0, 0, m), Key(0, 0, 1, 0) >>

SortKeys == {SortKeySeq[k] : k \in 1..Len(SortKeySeq)}

KeyLess(a, b) == a[2] < b[2] \/ (a[2] = b[2] /\ a[1] < b[1])

\* Key extraction: entry i carries the key of splat i and index = splat_index.
Entries(keys) == [i \in 1..Len(keys) |-> [key |-> keys[i], index |-> i - 1]]

\* The keys of n splats whose depths repeat with the period of SortKeySeq.
TileKeys(n) == [i \in 1..n |-> SortKeySeq[((i - 1) % Len(SortKeySeq)) + 1]]

\* Clouds of up to MaxSortLen splats with every combination of keys, and
\* clouds that fill one to MaxTiles - 1 tiles and start one more, with every
\* key for the splat of the last tile.
SortInputs ==
    UNION {{Entries(keys) : keys \in [1..n -> SortKeys]} : n \in 0..MaxSortLen}
    \cup {Entries(TileKeys(full * workgroup_entries_c) \o <<last>>) :
              full \in 1..(MaxTiles - 1), last \in SortKeys}

\* A freshly allocated (zeroed) entry buffer of n entries.
ZeroedBuffer(n) == [i \in 1..n |-> [key |-> Key(0, 0, 0, 0), index |-> 0]]

\* The digit of a key a pass looks at: pass 0 reads the least significant.
Digit(key, pass) ==
    LET shift == pass * radix_bits_per_digit
    IN  (key[(shift \div 16) + 1] \div (2 ^ (shift % 16))) % radix_base

Digits == 0..(radix_base - 1)

\* The tile that processes position i, the tiles of n entries, and the
\* positions of tile t.
TileOf(i) == (i - 1) \div workgroup_entries_c
TileCount(n) == (n + workgroup_entries_c - 1) \div workgroup_entries_c
TileFirst(t) == t * workgroup_entries_c + 1
TileLast(t, n) ==
    IF (t + 1) * workgroup_entries_c < n THEN (t + 1) * workgroup_entries_c ELSE n

\* StatusCounters of one tile, reset at the start of every pass: the flag a
\* tile publishes with, its local digit counts, and the running total of the
\* tiles before it.
ZeroCounts == [d \in Digits |-> 0]
ResetTile ==
    [flag |-> "not_ready", counts |-> ZeroCounts, base |-> ZeroCounts,
     scattered |-> FALSE]
ResetStatusCounters(n) == [t \in 0..(TileCount(n) - 1) |-> ResetTile]

\* Step 1: the local histogram of the positions lo..hi of the source.
local_histogram(src, pass, lo, hi) ==
    LET seen == {Digit(src[i].key, pass) : i \in lo..hi}
    IN  [d \in Digits |->
            IF d \in seen
            THEN Cardinality({i \in lo..hi : Digit(src[i].key, pass) = d})
            ELSE 0]

\* A look-back that never waits.
can_look_back_eager(tiles, u) == TRUE

\* Step 2, decoupled look-back of a tile, from tile u backwards: a tile that
\* has published its total ends the walk, one that has published its local
\* counts only adds them and the walk goes on, one that has published nothing
\* makes the walk wait.
RECURSIVE can_look_back(_, _)
can_look_back(tiles, u) ==
    IF u < 0 THEN TRUE
    ELSE IF tiles[u].flag = "total_published" THEN TRUE
    ELSE IF tiles[u].flag = "count_published" THEN can_look_back(tiles, u - 1)
    ELSE FALSE

RECURSIVE look_back(_, _, _)
look_back(tiles, u, digit) ==
    IF u < 0 THEN 0
    ELSE IF tiles[u].flag = "total_published"
    THEN tiles[u].base[digit] + tiles[u].counts[digit]
    ELSE tiles[u].counts[digit] + look_back(tiles, u - 1, digit)

\* The digit totals of all tiles and their exclusive prefix sum: the entries
\* with a smaller digit.
RECURSIVE digit_total(_, _, _)
digit_total(tiles, u, digit) ==
    IF u < 0 THEN 0
    ELSE tiles[u].counts[digit] + digit_total(tiles, u - 1, digit)

RECURSIVE SumOver(_, _)
SumOver(f, S) ==
    IF S = {} THEN 0
    ELSE LET x == CHOOSE y \in S : TRUE
         IN  f[x] + SumOver(f, S \ {x})

digit_prefix(tiles) ==
    LET last == Cardinality(DOMAIN tiles) - 1
        totals == [d \in Digits |-> digit_total(tiles, last, d)]
        occupied == {d \in Digits : totals[d] > 0}
    IN  [d \in Digits |-> SumOver(totals, {o \in occupied : o < d})]

\* The scatter base of tile t per digit.
global_offset(tiles, t) ==
    LET prefix == digit_prefix(tiles)
    IN  [d \in Digits |-> prefix[d] + tiles[t].base[d]]

\* Step 3 for the positions lo..hi of the source, in position order: an entry
\* goes to global_offset[digit] + local_rank (positions count from 1), then
\* the offset of its bucket is advanced by one.
\* st = [dst, local_rank]; the range is halved, and the lower half is worked
\* out before the upper one, to keep the nesting shallow.
RECURSIVE scatter(_, _, _, _, _, _)
scatter(src, pass, offsets, lo, hi, st) ==
    IF lo > hi THEN st
    ELSE IF lo = hi
    THEN LET digit == Digit(src[lo].key, pass)
             destination == offsets[digit] + st.local_rank[digit] + 1
         IN  [dst |-> [st.dst EXCEPT ![destination] = src[lo]],
              local_rank |-> [st.local_rank EXCEPT ![digit] = @ + 1]]
    ELSE LET mid == (lo + hi) \div 2
             lower == scatter(src, pass, offsets, lo, mid, st)
         IN  IF Len(lower.dst) = Len(st.dst)
             THEN scatter(src, pass, offsets, mid + 1, hi, lower)
             ELSE st

\* Key extraction has filled entry buffer A of a sort buffer pair.
InitSort ==
    /\ InitRender({"NotLoaded"}, {None})
    /\ sizing = [stage |-> "idle"]
    /\ \E input \in SortInputs :
          radix = [stage |-> "sorting", input |-> input, pass |-> 0,
                   current |-> "A", entry_buffer_a |-> input,
                   entry_buffer_b |-> ZeroedBuffer(Len(input)),
                   tiles |-> ResetStatusCounters(Len(input))]

CurrentEntries(r) ==
    IF r.current = "A" THEN r.entry_buffer_a ELSE r.entry_buffer_b

OtherEntries(r) ==
    IF r.current = "A" THEN r.entry_buffer_b ELSE r.entry_buffer_a

SortTiles == 0..(MaxTiles - 1)

\* Step 1 of tile t: it counts the digits of its batch and publishes the
\* counts.
histogram_tile(t) ==
    /\ radix.stage = "sorting"
    /\ t \in DOMAIN radix.tiles
    /\ radix.tiles[t].flag = "not_ready"
    /\ radix' = [radix EXCEPT
                    !.tiles[t].counts =
                        local_histogram(CurrentEntries(radix), radix.pass,
                                        TileFirst(t),
                                        TileLast(t, Len(radix.input))),
                    !.tiles[t].flag = "count_published"]
    /\ UNCHANGED <<frame_vars, sizing>>

\* Step 2 of tile t: it acquires the running total of the tiles before it
\* and publishes its own total.
look_back_tile(t) ==
    /\ radix.stage = "sorting"
    /\ t \in DOMAIN radix.tiles
    /\ radix.tiles[t].flag = "count_published"
    /\ can_look_back(radix.tiles, t - 1)
    /\ radix' = [radix EXCEPT
                    !.tiles[t].base =
                        [d \in Digits |-> look_back(radix.tiles, t - 1, d)],
                    !.tiles[t].flag = "total_published"]
    /\ UNCHANGED <<frame_vars, sizing>>

\* Step 3 of tile t, once the counts of every tile are in: it scatters its
\* batch into the other buffer.
scatter_tile(t) ==
    /\ radix.stage = "sorting"
    /\ t \in DOMAIN radix.tiles
    /\ radix.tiles[t].flag = "total_published"
    /\ ~radix.tiles[t].scattered
    /\ \A u \in DOMAIN radix.tiles : radix.tiles[u].flag # "not_ready"
    /\ LET out == scatter(CurrentEntries(radix), radix.pass,
                          global_offset(radix.tiles, t),
                          TileFirst(t), TileLast(t, Len(radix.input)),
                          [dst |-> OtherEntries(radix),
                           local_rank |-> ZeroCounts]).dst
       IN  radix' = [radix EXCEPT
                        !.tiles[t].scattered = TRUE,
                        !.entry_buffer_a =
                            IF radix.current = "B" THEN out ELSE @,
                        !.entry_buffer_b =
                            IF radix.current = "A" THEN out ELSE @]
    /\ UNCHANGED <<frame_vars, sizing>>

\* The pass is over when every tile has scattered: the destination becomes
\* the current buffer and the status counters are reset for the next pass.
finish_pass ==
    /\ radix.stage = "sorting"
    /\ \A u \in DOMAIN radix.tiles : radix.tiles[u].scattered
    /\ radix' = [radix EXCEPT
                    !.pass = @ + 1,
                    !.stage = IF radix.pass + 1 = radix_digit_places
                              THEN "sorted" ELSE "sorting",
                    !.current = IF @ = "A" THEN "B" ELSE "A",
                    !.tiles = ResetStatusCounters(Len(radix.input))]
    /\ UNCHANGED <<frame_vars, sizing>>

NextSort ==
    \/ \E t \in SortTiles : histogram_tile(t)
    \/ \E t \in SortTiles : look_back_tile(t)
    \/ \E t \in SortTiles : scatter_tile(t)
    \/ finish_pass

SpecSort == InitSort /\ [][NextSort]_vars

\* ---------------------------------------------------------------- properties
Ops(k) == drawn[k].ops
HasDraw(ops) == \E i \in 1..Len(ops) : ops[i].op = "draw_indirect"
BindOps(ops, index) ==
    {i \in 1..Len(ops) : ops[i].op = "set_bind_group" /\ ops[i].index = index}
ItemsOf(v, e) == {i \in 1..Len(phase[v]) : phase[v][i].entity = e}
HandleOf(e) == Unwrap(bundles[e]).verticies
IsLoading(e) == IsSome(bundles[e]) /\ loadState[HandleOf(e)] = "Loading"
IsPrepared(e) == IsSome(bundles[e]) /\ IsSome(gaussian_clouds[HandleOf(e)])
BufferName(b) == IF b = "A" THEN "entry_buffer_a" ELSE "entry_buffer_b"

\* C1 (as claimed): an entity whose cloud handle is Loading gets no
\* GaussianCloudBindGroup, no Transparent3d item in any view, no draw_indirect
\* and no failure or abort in that frame, whether or not a prepared cloud of
\* that handle exists.
C1_SkipOnLoading ==
    \A e \in Entities :
        IsLoading(e) =>
            /\ ~IsSome(cloud_bind_group[e])
            /\ \A v \in Views : ItemsOf(v, e) = {}
            /\ \A k \in 1..Len(drawn) :
                  drawn[k].entity = e =>
                      ~HasDraw(Ops(k)) /\ drawn[k].result # "Failure"
            /\ panic = "none"

\* C2 (as claimed): whatever number of sort passes has run, the sorted-order
\* bind group references the buffer that is current for its cloud: the entry
\* buffer, of the cloud record now in RenderAssets, that holds the latest sort
\* output.
C2_AlwaysCurrent ==
    \A e \in Entities :
        IsSome(cloud_bind_group[e]) =>
            LET sorted == Unwrap(cloud_bind_group[e]).sorted_bind_group
            IN  /\ IsSome(gaussian_clouds[sorted.handle])
                /\ sorted.allocation =
                      Unwrap(gaussian_clouds[sorted.handle]).allocation
                /\ sorted.buffer = BufferName(current_buffer[sorted.handle])


\* The resource kind bound at each group index.
GroupKind(index) ==
    CASE index = 0 -> "view"
      [] index = 1 -> "uniform"
      [] index = 2 -> "cloud"
      [] OTHER -> "sorted"

\* C3: every executed DrawGaussians sets groups 0 (view+globals, with the
\* view's offset), 1 (per-cloud uniform, with the entity's dynamic index), 2
\* (splat storage), 3 (sorted order) in this order, issues draw_indirect only
\* after all four, and issues none when a step fails.
C3_BindOrder ==
    \A k \in 1..Len(drawn) :
        LET ops == Ops(k)
            d == drawn[k]
        IN  /\ \A i, j \in 1..Len(ops) :
                  (i < j /\ ops[i].op = "set_bind_group"
                         /\ ops[j].op = "set_bind_group")
                      => ops[i].index < ops[j].index
            /\ \A i \in 1..Len(ops) :
                  ops[i].op = "set_bind_group" =>
                      /\ ops[i].index \in 0..3
                      /\ ops[i].bind.kind = GroupKind(ops[i].index)
                      /\ ops[i].index = 0 =>
                            /\ ops[i].bind.owner = d.view
                            /\ ops[i].dyn = <<ViewOffset(d.view)>>
                      /\ ops[i].index = 1 =>
                            ops[i].dyn = <<UniformSlot(d.entity)>>
                      /\ ops[i].index \in 2..3 =>
                            ops[i].bind.owner = HandleOf(d.entity)
            /\ \A i \in 1..Len(ops) :
                  ops[i].op = "draw_indirect" =>
                      /\ i = Len(ops)
                      /\ \A g \in 0..3 : \E j \in BindOps(ops, g) : j < i
                      /\ ops[i].bind.owner = HandleOf(d.entity)
            /\ d.result = "Success" <=> HasDraw(ops)

\* An item was drawn in full: pipeline, four bind groups, draw_indirect.
C3_Witness ==
    \E k \in 1..Len(drawn) :
        /\ drawn[k].result = "Success"
        /\ Len(Ops(k)) = 6
        /\ Ops(k)[6].op = "draw_indirect"

\* An entity whose cloud record or bind group set is absent.
ResourceMissing(e) == ~IsPrepared(e) \/ ~IsSome(cloud_bind_group[e])

\* C4 (as claimed): a draw attempted for an entity without its cloud record
\* or bind group set reports Failure without draw_indirect, every other item
\* of the frame is still executed, and nothing aborts.
C4_MissingResourceContained ==
    /\ panic = "none"
    /\ \A k \in 1..Len(drawn) :
          ResourceMissing(drawn[k].entity) =>
              drawn[k].result = "Failure" /\ ~HasDraw(Ops(k))
    /\ pc = "cleanup" =>
          \A v \in Views : \A e \in Entities :
              ItemsOf(v, e) # {} =>
                  \E k \in 1..Len(drawn) :
                      drawn[k].view = v /\ drawn[k].entity = e

\* The key the claim speaks of, from the settings requested.
RequestedKey(settings) ==
    [aabb |-> settings.aabb,
     visualize_bounding_box |-> settings.visualize_bounding_box]

\* C5: the compiled variants are as many as the distinct (aabb,
\* visualize_bounding_box) requested so far; every requested key stays cached
\* with the pipeline answered first; distinct keys have distinct pipelines.
C5_VariantCaching ==
    /\ Len(variants) = Cardinality(DOMAIN first_pipeline)
    /\ \A s \in DOMAIN first_pipeline :
          /\ RequestedKey(s) \in DOMAIN pipelines
          /\ pipelines[RequestedKey(s)] = first_pipeline[s]
          /\ first_pipeline[s] \in 1..Len(variants)
    /\ \A s, t \in DOMAIN first_pipeline :
          first_pipeline[s] = first_pipeline[t] => s = t
    /\ \A v \in Views : \A i \in 1..Len(phase[v]) :
          LET e == phase[v][i].entity
          IN  IsSome(bundles[e]) =>
                 phase[v][i].pipeline = first_pipeline[Unwrap(bundles[e]).settings]

AabbPlain == [aabb |-> TRUE, visualize_bounding_box |-> FALSE]
AabbBounds == [aabb |-> TRUE, visualize_bounding_box |-> TRUE]
ObbPlain == [aabb |-> FALSE, visualize_bounding_box |-> FALSE]

\* (AABB,false), (AABB,true), (OBB,false) were compiled in this order and a
\* later request for (AABB,false) got the first pipeline again.
C5_Witness ==
    /\ Len(variants) = 3
    /\ DOMAIN first_pipeline = {AabbPlain, AabbBounds, ObbPlain}
    /\ first_pipeline[AabbPlain] = 1
    /\ first_pipeline[AabbBounds] = 2
    /\ first_pipeline[ObbPlain] = 3
    /\ Len(phase[1]) = 1
    /\ phase[1][1].pipeline = 1

\* C6 (as claimed): right after queue_gaussians ran with the uniform buffer present, each
\* view holds exactly one item for every entity that is not Hidden and whose
\* cloud is prepared, and none for any other entity.
C6_OneDrawPerVisibleReady ==
    (/\ pc \in {"queue", "prepare"}
     /\ "queue_gaussians" \in queued
     /\ uniform_buffer)
    => \A v \in Views : \A e \in Entities :
          /\ e \notin hidden => IsSome(bundles[e])
          /\ Cardinality(ItemsOf(v, e)) =
                IF e \notin hidden /\ IsPrepared(e) THEN 1 ELSE 0
          /\ Len(phase[v]) =
                Cardinality({d \in Entities : d \notin hidden /\ IsPrepared(d)})

\* C7 (as claimed): the draw-indirect buffer of a prepared cloud of n splats
\* holds instance count n from upload on.
C7_InstanceCountAtUpload ==
    \A h \in Handles :
        IsSome(gaussian_clouds[h]) =>
            LET cloud == Unwrap(gaussian_clouds[h])
            IN  cloud.draw_indirect_buffer.instance_count = cloud.count

\* C7 (amended): prepare_asset records count = n and allocates the
\* draw-indirect buffer without contents: its instance count is 0, not n, and
\* no step of this file writes it.
C7_AllocatedNotPopulated ==
    \A h \in Handles :
        IsSome(gaussian_clouds[h]) =>
            LET cloud == Unwrap(gaussian_clouds[h])
            IN  /\ cloud.count \in Counts
                /\ cloud.count = cloud.gaussian_buffer.gaussians
                /\ cloud.draw_indirect_buffer.size = 16
                /\ cloud.draw_indirect_buffer.instance_count = 0

\* A cloud of at least one splat was just prepared.
C7_Witness ==
    /\ pc = "queue"
    /\ queued = {}
    /\ \E h \in Handles :
          /\ IsSome(gaussian_clouds[h])
          /\ Unwrap(gaussian_clouds[h]).count >= 1

\* The exact quotient ceil(count / k), and radix_base * tiles * 4, on limbs
\* wide enough that nothing wraps.
CeilDiv(count, k) == div_limbs(add_limbs(count, usize_from(k - 1), 0), k, 0)
StatusCounterBytes(tiles) ==
    mul_limbs(mul_limbs(tiles, radix_base, 0), size_of_u32, 0)

RECURSIVE Trim(_)
Trim(x) ==
    IF x # <<>> /\ x[Len(x)] = 0 THEN Trim(SubSeq(x, 1, Len(x) - 1)) ELSE x

\* C8: for every splat count, max_tile_count(count) is ceil(count /
\* workgroup_entries_c), the status counter buffer is radix_base * that * 4
\* bytes, and the 32-bit intermediate neither truncates nor overflows.
C8_SizingFormula ==
    /\ sizing.stage = "max_tile_count" =>
          /\ as_usize(as_u32(sizing.count)) = sizing.count
          /\ ~intermediate_overflows(sizing.count)
          /\ IsSome(sizing.result)
          /\ Trim(Unwrap(sizing.result))
                 = Trim(CeilDiv(sizing.count, workgroup_entries_c))
    /\ sizing.stage = "sorting_status_counters_buffer_size" =>
          /\ IsSome(sizing.result)
          /\ Trim(Unwrap(sizing.result))
                 = Trim(StatusCounterBytes(
                            CeilDiv(sizing.count, workgroup_entries_c)))

\* The low `bits` bits of a key.
LowBits(key, bits) ==
    <<key[1] % (2 ^ (IF bits < 16 THEN bits ELSE 16)),
      key[2] % (2 ^ (IF bits < 16 THEN 0 ELSE bits - 16))>>

\* The buffer holds the input permuted.
IsPermutation(out, input) ==
    /\ Len(out) = Len(input)
    /\ {out[p].index : p \in 1..Len(out)} = 0..(Len(input) - 1)
    /\ \A p \in 1..Len(out) : out[p] = input[out[p].index + 1]

\* The buffer is non-decreasing by the low `bits` bits of the key, equal ones
\* in ascending original index order (stated on neighbours, which gives it
\* for all pairs).
IsStablySorted(out, bits) ==
    \A p \in 1..(Len(out) - 1) :
        \/ KeyLess(LowBits(out[p].key, bits), LowBits(out[p + 1].key, bits))
        \/ /\ LowBits(out[p].key, bits) = LowBits(out[p + 1].key, bits)
           /\ out[p].index < out[p + 1].index

\* C9: after one full sort (radix_digit_places = 4 passes of 8 bits, least
\* significant digit first, every tile of every pass having run its three
\* steps in whatever interleaving the look-back allows) the final buffer,
\* entry buffer A again, is a permutation of the input, non-decreasing by
\* key, equal keys in ascending original index order; and after every pass the
\* current buffer is a permutation of the input that is stably sorted by the
\* digits done so far, the pass-to-pass stability the postcondition rests on.
C9_SortPostcondition ==
    /\ radix.stage = "sorted" =>
          /\ radix.pass = 4
          /\ radix.current = "A"
          /\ IsPermutation(CurrentEntries(radix), radix.input)
          /\ IsStablySorted(CurrentEntries(radix), 32)
    /\ (/\ radix.stage = "sorting"
        /\ radix.tiles = ResetStatusCounters(Len(radix.input)))
       => /\ IsPermutation(CurrentEntries(radix), radix.input)
          /\ IsStablySorted(CurrentEntries(radix),
                            radix.pass * radix_bits_per_digit)

\* A full sort over more than two tiles: the splat of the last tile ties with
\* splats of the tiles before it and is neither first nor last in the output.
C9_Witness ==
    /\ radix.stage = "sorted"
    /\ TileCount(Len(radix.input)) > 2
    /\ LET n == Len(radix.input)
           out == CurrentEntries(radix)
       IN  /\ \E i \in 1..(n - 1) : radix.input[i].key = radix.input[n].key
           /\ out[1].index # n - 1
           /\ out[n].index # n - 1
           /\ out # radix.input

\* C10: every compiled variant gets RADIX_BASE 256, RADIX_BITS_PER_DIGIT 8,
\* RADIX_DIGIT_PLACES 4, WORKGROUP_ENTRIES_C 1024 and TEMPORAL_SORT_WINDOW_SIZE
\* 16, the values of the ShaderDefines the host-side sizing uses, whatever its
\* key.
C10_ConfigConsistency ==
    \A id \in 1..Len(variants) :
        LET defs == variants[id].shader_defs
            host == ShaderDefinesDefault
        IN  /\ defs.RADIX_BASE = 256
            /\ defs.RADIX_BITS_PER_DIGIT = 8
            /\ defs.RADIX_DIGIT_PLACES = 4
            /\ defs.WORKGROUP_ENTRIES_C = 1024
            /\ defs.TEMPORAL_SORT_WINDOW_SIZE = 16
            /\ defs.RADIX_BASE = host.radix_base
            /\ defs.RADIX_BITS_PER_DIGIT = host.radix_bits_per_digit
            /\ defs.RADIX_DIGIT_PLACES = host.radix_digit_places
            /\ defs.WORKGROUP_ENTRIES_C = host.workgroup_entries_c
            /\ defs.TEMPORAL_SORT_WINDOW_SIZE = host.temporal_sort_window_size
            /\ defs.RADIX_BASE = 2 ^ defs.RADIX_BITS_PER_DIGIT
            /\ defs.RADIX_DIGIT_PLACES * defs.RADIX_BITS_PER_DIGIT = 32

\* All four variants are compiled.
C10_Witness ==
    /\ Len(variants) = 4
    /\ \A key \in Settings : key \in DOMAIN pipelines

\* The entity's cloud is ready: not Loading, and prepared.
IsReady(e) == IsPrepared(e) /\ ~IsLoading(e)

\* The step is the run of queue_gaussian_bind_group of the frame.
BindGroupSystemRuns ==
    /\ "queue_gaussian_bind_group" \notin queued
    /\ "queue_gaussian_bind_group" \in queued'

\* The step (re)allocates the buffers of cloud h.
Reallocates(h) ==
    /\ "prepare_assets" \notin queued
    /\ "prepare_assets" \in queued'
    /\ IsSome(pending[h])

\* C11 (as claimed): an entity's bind group set is reused, not rebuilt, as
\* long as the buffers of its cloud keep their identity: whatever the step, a
\* set that exists is the same set afterwards unless its cloud is reallocated.
C11_ReusedAcrossFrames ==
    [][\A e \in Entities :
          (IsSome(cloud_bind_group[e])
              /\ ~Reallocates(Unwrap(cloud_bind_group[e]).sorted_bind_group.handle))
          => cloud_bind_group'[e] = cloud_bind_group[e]]_vars

\* C11 (amended): no set is kept from frame to frame. When
\* queue_gaussian_bind_group runs, no entity has a set yet; with the uniform
\* buffer present it creates one for every entity whose cloud is ready, from
\* that cloud's buffers, whether or not they were reallocated, and for no
\* other entity; the end of the frame drops every set.
C11_RebuiltEveryFrame ==
    [][/\ BindGroupSystemRuns =>
            \A e \in Entities :
                /\ cloud_bind_group[e] = None
                /\ cloud_bind_group'[e] =
                      IF uniform_buffer /\ IsReady(e)
                      THEN Some(GaussianCloudBindGroup(
                               HandleOf(e), Unwrap(gaussian_clouds[HandleOf(e)])))
                      ELSE None
       /\ pc = "cleanup" => \A e \in Entities : cloud_bind_group'[e] = None]_vars

\* A frame starts with no set although the frame before created the base
\* bind group and the cloud stayed prepared and loaded.
C11_Witness ==
    /\ pc = "queue"
    /\ queued = {}
    /\ IsSome(base_bind_group)
    /\ \E e \in Entities :
          /\ IsReady(e)
          /\ ~IsSome(pending[HandleOf(e)])
          /\ cloud_bind_group[e] = None

\* C12 (as claimed): for every prepared cloud the recorded splat count, the gaussian
\* buffer, the capacity of both sort entry buffers and the size of every
\* sorted-order binding made from it (count * 8 bytes) agree, and its buffers
\* are the ones prepare_asset allocated together for that count.
C12_NoBufferCountMismatch ==
    /\ \A h \in Handles :
          IsSome(gaussian_clouds[h]) =>
              LET cloud == Unwrap(gaussian_clouds[h])
              IN  /\ cloud.count \in Counts
                  /\ cloud.gaussian_buffer.gaussians = cloud.count
                  /\ cloud.radix_sort_buffers.entry_buffer_a.entries = cloud.count
                  /\ cloud.radix_sort_buffers.entry_buffer_b.entries = cloud.count
                  /\ \A f \in DOMAIN prepare_asset(cloud.count) :
                        cloud[f] = prepare_asset(cloud.count)[f]
    /\ \A e \in Entities :
          IsSome(cloud_bind_group[e]) =>
              LET sorted == Unwrap(cloud_bind_group[e]).sorted_bind_group
                  cloud == Unwrap(gaussian_clouds[sorted.handle])
              IN  IsSome(gaussian_clouds[sorted.handle]) =>
                      /\ sorted.size = cloud.count * 8
                      /\ sorted.size =
                            cloud.radix_sort_buffers.entry_buffer_a.entries * 8

\* C13 (as claimed): no skip is remembered. In every frame, whatever happened in the
\* frames before and in whatever order the queue systems ran, once the queue
\* stage is over with the uniform buffer present, every extracted (not Hidden)
\* entity whose cloud is ready (not Loading, prepared) has its bind groups and
\* exactly one draw item in every view.
C13_RetryUntilReady ==
    (pc = "prepare" /\ uniform_buffer) =>
        \A e \in Entities :
            IsReady(e) =>
                /\ e \notin hidden
                /\ IsSome(base_bind_group)
                /\ IsSome(cloud_bind_group[e])
                /\ Unwrap(cloud_bind_group[e]).sorted_bind_group.handle
                       = HandleOf(e)
                /\ \A v \in Views : Cardinality(ItemsOf(v, e)) = 1

\* C14: the expect("bind group not initialized") of
\* SetGaussianUniformBindGroup never fires: whatever the order of the queue
\* systems, from the end of the queue stage to the end of the frame a view
\* that holds a draw item goes with a base bind group that is Some, and the
\* base bind group only exists together with the uniform buffer.
C14_ExpectNeverFires ==
    /\ panic # "bind group not initialized"
    /\ (/\ pc \notin {"main", "queue"}
        /\ \E v \in Views : phase[v] # <<>>)
       => IsSome(base_bind_group)
    /\ IsSome(base_bind_group) => uniform_buffer

\* A draw function got past the expect and bound group 1.
C14_Witness ==
    /\ pc = "render"
    /\ \E k \in 1..Len(drawn) :
          /\ BindOps(Ops(k), 1) # {}
          /\ drawn[k].result = "Success"

====
